---- MODULE Spec2Model ----
(***************************************************************************)
(* Model of the tar1090 heatmap ingest of bellingcat/adsb-history:         *)
(* parse_binary_file, process_directory and main                           *)
(* (src/backend-data-loading/process_adsb_data.py).                        *)
(*                                                                         *)
(* Representation notes.                                                   *)
(*  - A word is the signed 32-bit value of the numpy int32 view.  The      *)
(*    uint32 view and the uint8 view are obtained from it by floor         *)
(*    division and modulo, never by adding 2^32 (which does not fit an     *)
(*    integer of the checker).                                             *)
(*  - Python indices are 0-based; At(p, k) reads p[k].                     *)
(*  - A timestamp is the pair <<u32[i+1], u32[i+2]>> of the header, i.e.   *)
(*    the exact millisecond count 2^32 * hi + lo; the source computes      *)
(*    lo / 1e3 + 4294967.296 * hi in double precision.  Differences are    *)
(*    compared exactly, in milliseconds.                                   *)
(*  - lat and lon are kept in micro-degrees (the source divides by 1e6),   *)
(*    gs in tenths of a knot (the source divides by 10).                   *)
(*  - None is <<>>; a present gs is <<v>>; a call sign is the tuple of     *)
(*    the 8 code points chr() is applied to; hex and squawk are tuples of  *)
(*    one-character strings.                                               *)
(*  - The directory tree is the set of its files <<dir, name>>, where dir  *)
(*    is the name of the child directory of the root that holds the file   *)
(*    and <<>> for a file of the root itself; <<dir, <<>>>> stands for the *)
(*    directory itself and << <<>>, <<>> >> for the root, which is missing *)
(*    or no directory when the tree is empty.  Names are tuples of         *)
(*    one-character strings.  A file is named in files_to_cleanup, errors, *)
(*    missing, removed and delete_failed by its position in the work list. *)
(***************************************************************************)
EXTENDS Integers, Sequences, FiniteSets, TLC

VARIABLES
  profile,          \* which input alphabet the run draws its files from
  cleanup_files,    \* process_directory argument
  skip_finalize,    \* args.skip_finalize
  tree,             \* the files under the root directory
  queue,            \* the files in the order the file loops visit them
  file,             \* <<exists, words>> of the file handed to parse_binary_file
  errors,           \* files for which "Error parsing file" was logged
  missing,          \* files for which "File does not exist" was logged
  removed,          \* files deleted by the latest cleanup loop
  delete_failed,    \* files for which "Failed to delete" was logged by it
  run,              \* how many times the program was started again
  finalized,        \* adsb_temp was copied into adsb and committed
  temp_dropped,     \* adsb_temp was dropped
  fileNo,           \* position of the file loop in numeric_files
  pc,               \* control point
  points,           \* int32 array of the file being parsed
  slices,           \* indices of the aligned sentinels
  index,            \* loop variable of the frame loop
  i,                \* word index of the record loop
  now,              \* timestamp of the current frame
  acinfo,           \* aircraft state table
  last_seen,        \* down-sampler map
  data,             \* list being built / returned by parse_binary_file
  sink,             \* adsb_temp: the appended batches, in order
  total_records,    \* process_directory's counter
  files_to_cleanup, \* process_directory's cleanup list
  firebase_initialized, \* firebase_utils.firebase_initialized
  auth_header,      \* <<present, text>> of the Authorization header
  endpoint,         \* request.endpoint
  api_pc,           \* where the request stands in the decorator chain
  user,             \* request.user
  status,           \* the HTTP status of the response, 0 before it
  validated,        \* validate_params has run for the request
  queried,          \* the view function has run for the request
  requests          \* how many requests were answered

loaderVars ==
  <<profile, cleanup_files, skip_finalize, tree, queue, file, errors,
    missing, removed, delete_failed, run, finalized, temp_dropped, fileNo, pc,
    points, slices, index, i, now, acinfo, last_seen, data, sink,
    total_records, files_to_cleanup>>

apiVars == <<firebase_initialized, auth_header, endpoint, api_pc, user,
             status, validated, queried, requests>>

vars == <<loaderVars, apiVars>>

----------------------------------------------------------------------------
(* Program constants *)

Sentinel == 243235997
IdentityThreshold == 1073741824
MinGapMs == 60000
LatLimit == 90000000
LonLimit == 180000000
GroundAlt == -123
AltStep == 25
GsAbsent == -1

None == <<>>
NoFile == <<FALSE, <<>>>>
EmptyMap == [h \in {} |-> None]

----------------------------------------------------------------------------
(* Views of a word *)

At(p, k) == p[k + 1]

\* points[i] & 16777215
Low24(w) == w % 16777216

\* points[i] & (1 << 24)
Bit24(w) == (w \div 16777216) % 2 = 1

\* a type read from bits 27..30 only
TypeNumLow4(w) == (w \div 134217728) % 16

\* (pointsU[i] >> 27) & 31
TypeNum(w) == (w \div 134217728) % 32

\* x & 65535
Low16(w) == w % 65536

\* pointsU8[4 * k + j]: byte j of word k, little-endian
U8(p, b) == (At(p, b \div 4) \div (256 ^ (b % 4))) % 256

HexChars == <<"0", "1", "2", "3", "4", "5", "6", "7",
              "8", "9", "a", "b", "c", "d", "e", "f">>

\* f"{n:06x}" for 0 <= n < 2^24
Hex6(n) == [k \in 1..6 |-> HexChars[((n \div (16 ^ (6 - k))) % 16) + 1]]

\* an identifier that leaves out the non-ICAO flag
HexOfPlain(w) == Hex6(Low24(w))

\* the aircraft identifier of a record whose first word is w
HexOf(w) == IF Bit24(w) THEN <<"~">> \o Hex6(Low24(w)) ELSE Hex6(Low24(w))

DecChars == <<"0", "1", "2", "3", "4", "5", "6", "7", "8", "9">>

RECURSIVE DecStr(_)
\* str(n) for n >= 0
DecStr(n) == IF n < 10 THEN <<DecChars[n + 1]>>
             ELSE DecStr(n \div 10) \o <<DecChars[(n % 10) + 1]>>

RECURSIVE ZeroPad(_, _)
ZeroPad(s, width) == IF Len(s) >= width THEN s ELSE ZeroPad(<<"0">> \o s, width)

\* a squawk rendered without padding
SquawkPlain(lat) == DecStr(Low16(lat))

\* f"{lat & 65535:04d}"
SquawkOf(lat) == ZeroPad(DecStr(Low16(lat)), 4)

\* the 8 characters starting at byte 4 * (i + 2)
FlightText(p, k) == [j \in 1..8 |-> U8(p, 4 * (k + 2) + (j - 1))]

\* the classification with the threshold itself on the Identity side
IsIdentityGe(lat) == lat >= IdentityThreshold

\* lat > 1073741824
IsIdentity(lat) == lat > IdentityThreshold

\* the coordinate test with the limits included
InRangeInclusive(lat, lon) ==
  /\ lat >= -LatLimit
  /\ lat <= LatLimit
  /\ lon >= -LonLimit
  /\ lon <= LonLimit

\* lat > -90 and lat < 90 and lon > -180 and lon < 180, after the division
InRange(lat, lon) ==
  /\ lat > -LatLimit
  /\ lat < LatLimit
  /\ lon > -LonLimit
  /\ lon < LonLimit

\* low 16 bits, sign-extended from bit 15
AltRaw(w) == IF Low16(w) >= 32768 THEN Low16(w) - 65536 ELSE Low16(w)

\* an altitude scaled without the ground marker
AltOfScaled(w) == AltRaw(w) * AltStep

\* alt = -123 if alt == -123 else alt * 25
AltOf(w) == IF AltRaw(w) = GroundAlt THEN GroundAlt ELSE AltRaw(w) * AltStep

\* points[i + 3] >> 16 on a signed word
GsRaw(w) == w \div 65536

GsOf(w) == IF GsRaw(w) = GsAbsent THEN None ELSE <<GsRaw(w)>>

----------------------------------------------------------------------------
(* Timestamps *)

\* now = pointsU[i + 2] / 1e3 + 4294967.296 * pointsU[i + 1]
NowOf(w1, w2) == <<w1, w2>>

\* the unsigned value of a is >= k, for 0 <= k < 2^31
UGe(a, k) == a < 0 \/ a >= k

\* the unsigned value of a is less than that of b
ULt(a, b) == IF (a < 0) = (b < 0) THEN a < b ELSE b < 0

\* the unsigned value of a is that of b plus one
USucc(a, b) == /\ b # -1
               /\ a = (IF b = 2147483647 THEN -2147483647 - 1 ELSE b + 1)

\* u(a) - u(b) >= k, for 0 < k < 2^31
LoDiffGe(a, b, k) ==
  IF (a < 0) = (b < 0) THEN a - b >= k
  ELSE IF a < 0
       THEN LET x == (a + 2147483647) + 1
                y == 2147483647 - b
            IN  x >= k \/ y >= k \/ x + y + 1 >= k
       ELSE FALSE

\* t1 - t0 >= k milliseconds, for 0 < k < 2^31
ElapsedGe(t1, t0, k) ==
  IF t1[1] = t0[1] THEN LoDiffGe(t1[2], t0[2], k)
  ELSE IF USucc(t1[1], t0[1])
       THEN LET nb == -t0[2] - 1
            IN  UGe(t1[2], k) \/ UGe(nb, k) \/ t1[2] + nb + 1 >= k
       ELSE ULt(t0[1], t1[1])

----------------------------------------------------------------------------
(* The record loop body, as functions of the state it reads *)

\* both fields read from element 0 of the stored tuple
LookupSameIndex(tab, h) ==
  IF h \in DOMAIN tab THEN <<tab[h][1], tab[h][1]>> ELSE <<None, None>>

\* acinfo.get(hex, (None, None))
Lookup(tab, h) == IF h \in DOMAIN tab THEN tab[h] ELSE <<None, None>>

\* the tuple an Identity record at word index k stores
IdentityTuple(p, k) ==
  <<IF U8(p, 4 * (k + 2)) # 0 THEN FlightText(p, k) ELSE None,
    SquawkOf(At(p, k + 1))>>

\* a stored call sign survives an Identity record that has none
StoreMerge(tab, h, tuple) ==
  IF h \in DOMAIN tab /\ tuple[1] = None
  THEN (h :> <<tab[h][1], tuple[2]>>) @@ tab
  ELSE (h :> tuple) @@ tab

\* acinfo[hex] = (flight, squawk)
StoreIdentity(tab, h, tuple) == (h :> tuple) @@ tab

\* the gate with the gap taken in absolute value
GateAbs(ls, h, t) ==
  \/ /\ h \in DOMAIN ls
     /\ (ElapsedGe(t, ls[h], MinGapMs) \/ ElapsedGe(ls[h], t, MinGapMs))
  \/ h \notin DOMAIN ls

\* (hex in last_seen and now - last_seen[hex] >= 60) or not hex in last_seen
Gate(ls, h, t) ==
  \/ (h \in DOMAIN ls /\ ElapsedGe(t, ls[h], MinGapMs))
  \/ h \notin DOMAIN ls

\* last_seen[hex] = now moved out of the gate
NextLastSeenAlways(ls, h, t, emit) == (h :> t) @@ ls

\* last_seen[hex] = now, inside the gate only
NextLastSeen(ls, h, t, emit) == IF emit THEN (h :> t) @@ ls ELSE ls

\* a down-sampler that is consulted and updated ahead of the coordinate test
PassesGateFirst(inrange, gate) == gate

\* the gate stands inside the block of the coordinate test: last_seen[hex] = now
\* and data.append(ac) are reached when both hold
Passes(inrange, gate) == inrange /\ gate

\* the dictionary appended to data
Emitted(p, k, t, fs) ==
  [t      |-> t,
   hex    |-> HexOf(At(p, k)),
   flight |-> fs[1],
   squawk |-> fs[2],
   lat    |-> At(p, k + 1),
   lon    |-> At(p, k + 2),
   alt    |-> AltOf(At(p, k + 3)),
   gs     |-> GsOf(At(p, k + 3)),
   type   |-> TypeNum(At(p, k))]

\* for i in range(0, len(points), 4): if points[i] == 243235997
RECURSIVE ScanFrom(_, _)
ScanFrom(p, k) ==
  IF k >= Len(p) THEN <<>>
  ELSE (IF At(p, k) = Sentinel THEN <<k>> ELSE <<>>) \o ScanFrom(p, k + 4)

\* a scan that takes the head of the file as the start of a frame
ScanWithHead(p) ==
  IF ScanFrom(p, 0) = <<>> \/ At(p, 0) = Sentinel
  THEN ScanFrom(p, 0)
  ELSE <<0>> \o ScanFrom(p, 0)

Scan(p) == ScanFrom(p, 0)

\* the record at word index k cannot be decoded without an out-of-bounds read
RecordRaises(p, k) ==
  \/ k + 2 >= Len(p)
  \/ /\ k + 3 >= Len(p)
     /\ \/ (IsIdentity(At(p, k + 1)) /\ U8(p, 4 * (k + 2)) # 0)
        \/ InRange(At(p, k + 1), At(p, k + 2))

----------------------------------------------------------------------------
(* Input files.  A file is a sequence of words; the alphabets below are    *)
(* the 4-word groups the files of each profile are built from.             *)

MaxGroupsGate == 6
MaxGroupsSpacing == 6
MaxGroupsState == 4
MaxGroupsDecode == 2
MaxGroupsBatch == 4
MaxFilesBatch == 2
MaxTreeFiles == 4
MaxGroupsSquawk == 3
MaxGroupsHex == 4
MaxGroupsSkip == 2
MaxReruns == 1
MaxGroupsLoad == 3
MaxGroupsRerun == 2
MaxGroupsScan == 4
MaxGroupsLead == 3
MaxGroupsRange == 4
TruncGroups == 1
TruncGroupsBatch == 3

Profiles == {"gate", "spacing", "state", "decode", "batch", "walk", "squawk",
             "hex", "skip", "select",
             "load", "rerun", "scan", "lead", "range"}

\* first word of a record: type in bits 27..31, flags in bits 25..26,
\* the non-ICAO flag in bit 24, the address in bits 0..23
Word0(type, flags, tilde, icao) ==
  (IF type >= 16 THEN type - 32 ELSE type) * 134217728
    + flags * 33554432 + tilde * 16777216 + icao

\* fourth word of a Position: gs_raw in the high half, alt_raw in the low half
Word3(gsraw, altraw) == gsraw * 65536 + (altraw % 65536)

\* four bytes, little-endian, as a signed word
Pack(b0, b1, b2, b3) ==
  b0 + b1 * 256 + b2 * 65536 + (IF b3 >= 128 THEN b3 - 256 ELSE b3) * 16777216

Header(hi, lo, w3) == <<Sentinel, hi, lo, w3>>

Position(w0, lat, lon, gsraw, altraw) == <<w0, lat, lon, Word3(gsraw, altraw)>>

IcaoA == 703710      \* 0abcde
IcaoB == 4196850     \* 400df2

HexA == Word0(0, 0, 0, IcaoA)
HexB == Word0(0, 0, 1, IcaoB)

\* "BAW123  "
TextBAW == <<Pack(66, 65, 87, 49), Pack(50, 51, 32, 32)>>

Identity(w0, squawk, text) == <<w0, IdentityThreshold + squawk, text[1], text[2]>>

PosA == Position(HexA, 47000000, 8000000, 2500, 4)
PosB == Position(HexB, -33000000, 151000000, -1, GroundAlt)

GateAlphabet ==
  { Header(0, 1000000, 0), Header(0, 1030000, 0), Header(0, 1061000, 7), PosA }

SpacingAlphabet ==
  { Header(0, 1000000, 0), Header(0, 1061000, 0), PosA, PosB }

StateAlphabet ==
  { Header(0, 1000000, 0), Header(0, 1061000, 0),
    Identity(HexA, 1800, TextBAW),
    Identity(HexA, 7700, <<0, 0>>),
    Identity(HexB, 65535, <<Pack(90, 0, 128, 255), Pack(0, 1, 2, 3)>>),
    <<HexA, IdentityThreshold, Pack(66, 65, 87, 49), Pack(50, 51, 32, 32)>>,
    PosA, PosB }

\* one field at a time is moved away from PosA
DecodeAlphabet ==
  { Header(0, 1000000, 0), PosA }
  \cup { Position(HexA, lat, 8000000, 2500, 4) :
           lat \in {-LatLimit - 1, -LatLimit, 1 - LatLimit,
                    LatLimit - 1, LatLimit, LatLimit + 1} }
  \cup { Position(HexA, 47000000, lon, 2500, 4) :
           lon \in {-LonLimit, 1 - LonLimit, LonLimit - 1, LonLimit} }
  \cup { Position(Word0(type, 0, 0, IcaoA), 47000000, 8000000, 2500, 4) :
           type \in {1, 12, 13, 16, 31} }
  \cup { Position(HexA, 47000000, 8000000, gsraw, 4) :
           gsraw \in {-32768, -2, -1, 0, 1, 32767} }
  \cup { Position(HexA, 47000000, 8000000, 2500, altraw) :
           altraw \in {-32768, -124, -123, -122, -1, 0, 32767} }
  \cup { Position(Word0(0, 0, 1, IcaoB), 47000000, 8000000, -1, GroundAlt),
         Position(Word0(0, 1, 0, IcaoA), 47000000, 8000000, 2500, 4),
         Position(Word0(31, 2, 1, 15), -47000000, -8000000, -32768, -32768) }

BatchAlphabet ==
  { Header(0, 1000000, 0), Header(0, 1030000, 0), PosA }

\* Identity records whose word 1 ends in the 16 bits v
SquawkAlphabet ==
  { Header(0, 1000000, 0), PosA, PosB,
    <<HexB, IdentityThreshold + 65535, 0, 0>> }
  \cup { <<HexA, IdentityThreshold + 65536 + v, 0, 0>> :
           v \in {0, 7, 999, 9999, 10000} }

\* positions whose first words differ in the address, in bit 24, in
\* bits 25..26 or in bits 27..31
HexAlphabet ==
  { Header(0, 1000000, 0), PosA,
    Position(Word0(13, 0, 0, IcaoA), 47000000, 8000000, 2500, 4),
    Position(Word0(0, 3, 0, IcaoA), 47000000, 8000000, 2500, 4),
    Position(Word0(0, 0, 1, IcaoA), 47000000, 8000000, 2500, 4),
    Position(Word0(31, 2, 1, 15), 47000000, 8000000, 2500, 4) }

\* a header, a record, and a record whose word 1 is the sentinel value
SkipAlphabet ==
  { Header(0, 1000000, 0), PosA, <<HexA, Sentinel, 8000000, Word3(2500, 4)>> }

\* one frame header and the positions of two aircraft
LoadAlphabet == { Header(0, 1000000, 0), PosA, PosB }

RerunAlphabet == { Header(0, 1000000, 0), PosA }

\* two headers that differ in all three words, a position, and a record
\* whose word 1 is the sentinel value
ScanAlphabet ==
  { Header(0, 1000000, 0), Header(1, 61000, 7), PosA,
    <<HexB, Sentinel, 8000000, Word3(2500, 4)>> }

\* a header and the positions of two aircraft
LeadAlphabet == { Header(0, 1000000, 0), PosA, PosB }

\* two headers one second apart, a position, and positions of the same
\* aircraft on the limits of the coordinate test
RangeAlphabet ==
  { Header(0, 1000000, 0), Header(0, 1001000, 0), PosA,
    Position(HexA, LatLimit, 8000000, 2500, 4),
    Position(HexA, 47000000, -LonLimit, 2500, 4) }

Alphabet(prof) ==
  CASE prof = "gate"   -> GateAlphabet
    [] prof = "spacing" -> SpacingAlphabet
    [] prof = "state"  -> StateAlphabet
    [] prof = "decode" -> DecodeAlphabet
    [] prof = "batch"  -> BatchAlphabet
    [] prof = "squawk" -> SquawkAlphabet
    [] prof = "hex"    -> HexAlphabet
    [] prof = "skip"   -> SkipAlphabet
    [] prof = "load"   -> LoadAlphabet
    [] prof = "rerun"  -> RerunAlphabet
    [] prof = "scan"   -> ScanAlphabet
    [] prof = "lead"   -> LeadAlphabet
    [] prof = "range"  -> RangeAlphabet

MaxGroups(prof) ==
  CASE prof = "gate"   -> MaxGroupsGate
    [] prof = "spacing" -> MaxGroupsSpacing
    [] prof = "state"  -> MaxGroupsState
    [] prof = "decode" -> MaxGroupsDecode
    [] prof = "batch"  -> MaxGroupsBatch
    [] prof = "walk"   -> 2
    [] prof = "select" -> 2
    [] prof = "squawk" -> MaxGroupsSquawk
    [] prof = "hex"    -> MaxGroupsHex
    [] prof = "skip"   -> MaxGroupsSkip
    [] prof = "load"   -> MaxGroupsLoad
    [] prof = "rerun"  -> MaxGroupsRerun
    [] prof = "scan"   -> MaxGroupsScan
    [] prof = "lead"   -> MaxGroupsLead
    [] prof = "range"  -> MaxGroupsRange

NumFiles(prof) ==
  CASE prof \in {"batch", "skip", "load"} -> MaxFilesBatch
    [] prof \in {"scan", "lead"}         -> 2
    [] OTHER                             -> 1

Flatten(groups) ==
  [k \in 1..(4 * Len(groups)) |-> groups[((k - 1) \div 4) + 1][((k - 1) % 4) + 1]]

\* the file made of the groups g, without the last `cut` words
FileOf(g, cut) == SubSeq(Flatten(g), 1, 4 * Len(g) - cut)

\* how many words the last group of a file of m groups may lack
Cuts(prof, m) ==
  LET longest == CASE prof \in {"walk", "select"} -> 0
                   [] prof = "batch" -> TruncGroupsBatch
                   [] OTHER          -> TruncGroups
  IN  IF 1 <= m /\ m <= longest THEN 0..3 ELSE {0}

\* whether the first file stays known, for the next file to be a variant
\* of it
KeepsFile(prof) == prof \in {"scan", "lead"}

\* the indices of the aligned sentinels of p
AlignedSentinels(p) ==
  { k \in 0..(Len(p) - 1) : k % 4 = 0 /\ At(p, k) = Sentinel }

\* p with another value in word 3 of each frame header
OtherWord3(p) ==
  [k \in 1..Len(p) |->
     IF k % 4 = 0 /\ (k - 4) \in AlignedSentinels(p) THEN p[k] + 1 ELSE p[k]]

\* p without the words before its first aligned sentinel
WithoutLead(p) ==
  IF AlignedSentinels(p) = {} THEN <<>>
  ELSE LET first == CHOOSE k \in AlignedSentinels(p) :
                      \A l \in AlignedSentinels(p) : k <= l
       IN  SubSeq(p, first + 1, Len(p))

\* the numbers of groups a file may be drawn with; a variant is not drawn
Lengths(prof) ==
  IF KeepsFile(prof) /\ fileNo >= 1 THEN {0} ELSE 0..MaxGroups(prof)

\* the file that is read after p, where a profile reads a file and then a
\* variant of it
Variant(prof, p) ==
  CASE prof = "scan" -> OtherWord3(p)
    [] prof = "lead" -> WithoutLead(p)
    [] OTHER         -> p

\* whether the file may have vanished between the listing and the open
ExistsChoices(prof) == IF prof \in {"walk", "select"} THEN {TRUE} ELSE BOOLEAN

----------------------------------------------------------------------------
(* Directory walk of process_directory *)

\* the characters the names are made of, in code point order
NameChars == <<" ", "-", "0", "1", "2", "3", "4", "5", "6", "7", "8", "9", "a">>

Rank(c) == CHOOSE k \in 1..Len(NameChars) : NameChars[k] = c

\* a < b of two str
LexLess(a, b) ==
  \E k \in 1..(Len(a) + 1) :
    /\ k <= Len(b)
    /\ \A j \in 1..(k - 1) : a[j] = b[j]
    /\ (k = Len(a) + 1 \/ Rank(a[k]) < Rank(b[k]))

IsDigit(c) == \E k \in 1..10 : DecChars[k] = c

\* str.isdigit()
IsDigitName(n) == Len(n) > 0 /\ \A k \in 1..Len(n) : IsDigit(n[k])

DigitOf(c) == (CHOOSE k \in 1..10 : DecChars[k] = c) - 1

RECURSIVE IntOf(_)
\* int(n) of a string of digits
IntOf(n) == IF Len(n) = 0 THEN 0
            ELSE 10 * IntOf(SubSeq(n, 1, Len(n) - 1)) + DigitOf(n[Len(n)])

\* filename.isdigit() and 0 <= int(filename) <= 47
IsSlotName(n) == IsDigitName(n) /\ 0 <= IntOf(n) /\ IntOf(n) <= 47

DaysIn(y, m) ==
  IF m = 2 THEN (IF y % 4 = 0 /\ (y % 100 # 0 \/ y % 400 = 0) THEN 29 ELSE 28)
  ELSE IF m \in {4, 6, 9, 11} THEN 30 ELSE 31

\* len(item) == 10 and item.count("-") == 2 and strptime(item, "%Y-%m-%d")
IsDateName(d) ==
  /\ Len(d) = 10
  /\ Cardinality({ k \in 1..10 : d[k] = "-" }) = 2
  /\ d[5] = "-" /\ d[8] = "-"
  /\ \A k \in {1, 2, 3, 4, 6, 7, 10} : IsDigit(d[k])
  /\ (IsDigit(d[9]) \/ d[9] = " ")
  /\ LET y   == IntOf(SubSeq(d, 1, 4))
         m   == IntOf(SubSeq(d, 6, 7))
         day == IF d[9] = " " THEN DigitOf(d[10]) ELSE IntOf(SubSeq(d, 9, 10))
     IN  y >= 1 /\ 1 <= m /\ m <= 12 /\ 1 <= day /\ day <= DaysIn(y, m)

\* numeric_files.sort() without the key
FileBeforeLex(a, b) == LexLess(a, b)

\* the order of numeric_files.sort(key=lambda x: int(os.path.basename(x)))
FileBefore(a, b) == IntOf(a) < IntOf(b)

\* the order of sorted(date_dirs)
DirBefore(a, b) == LexLess(a, b)

RECURSIVE SortFiles(_)
SortFiles(S) ==
  IF S = {} THEN <<>>
  ELSE LET m == CHOOSE x \in S : \A y \in S : ~FileBefore(y, x)
       IN  <<m>> \o SortFiles(S \ {m})

RECURSIVE SortDirs(_)
SortDirs(S) ==
  IF S = {} THEN <<>>
  ELSE LET m == CHOOSE x \in S : \A y \in S : ~DirBefore(y, x)
       IN  <<m>> \o SortDirs(S \ {m})

\* the child directories of the root that are named like a date
DateDirs(t) == { d \in { e[1] : e \in { x \in t : x[2] = <<>> } } : IsDateName(d) }

\* date_dirs, in the order of the partition loop; the root itself when no
\* child is named like a date
Partitions(t) == IF DateDirs(t) = {} THEN << <<>> >> ELSE SortDirs(DateDirs(t))

\* numeric_files of the partition d, sorted
NumericFiles(t, d) ==
  LET names == { n \in { e[2] : e \in { x \in t : x[1] = d } } : IsSlotName(n) }
      sorted == SortFiles(names)
  IN  [k \in 1..Len(sorted) |-> <<d, sorted[k]>>]

RECURSIVE Concat(_)
Concat(ss) == IF ss = <<>> THEN <<>> ELSE ss[1] \o Concat(Tail(ss))

\* the files in the order the two nested loops reach them
WorkList(t) ==
  LET ps == Partitions(t)
  IN  Concat([k \in 1..Len(ps) |-> NumericFiles(t, ps[k])])

\* the root directory
RootDir == << <<>>, <<>> >>

\* the directories that hold the files fs, and the root
DirsOf(fs) == { <<e[1], <<>>>> : e \in fs } \cup { RootDir }

\* a root directory holding the files "0" .. "n-1"
FlatTree(n) == LET fs == { << <<>>, DecStr(k) >> : k \in 0..(n - 1) }
               IN  fs \cup DirsOf(fs)

Jan02 == <<"2", "0", "2", "4", "-", "0", "1", "-", "0", "2">>
Jan10 == <<"2", "0", "2", "4", "-", "0", "1", "-", "1", "0">>

WalkDirs == { <<>>, Jan02, Jan10 }
WalkNames == { <<"2">>, <<"1", "0">>, <<"a">> }

WalkTrees ==
  { fs \cup DirsOf(fs) :
      fs \in { t \in SUBSET (WalkDirs \X WalkNames) :
                 Cardinality(t) <= MaxTreeFiles } }

\* "2024-01- 5": strptime reads " 5" as the day 5
Jan05Space == <<"2", "0", "2", "4", "-", "0", "1", "-", " ", "5">>
Feb30 == <<"2", "0", "2", "4", "-", "0", "2", "-", "3", "0">>

SelectDirs == { <<>>, Jan02, Jan05Space, Feb30 }
SelectNames == { <<"2">>, <<"4", "8">>, <<"a">> }

\* files in the root, in a date directory, in a directory with a space in
\* the day and in one named after no day of the calendar; Jan10 may be an
\* empty directory
SelectTrees ==
  { fs \cup DirsOf(fs) \cup extra :
      fs \in { t \in SUBSET (SelectDirs \X SelectNames) :
                 Cardinality(t) <= MaxTreeFiles },
      extra \in { {}, { <<Jan10, <<>>>> } } }

\* two files in the root; one file in a date directory beside one in the
\* root; a root that is no directory
RerunTrees ==
  { FlatTree(2),
    LET fs == { <<Jan02, <<"0">>>>, << <<>>, <<"1">> >> } IN fs \cup DirsOf(fs),
    {} }

\* the trees of a profile; the empty tree is a root that is no directory
Trees(prof) ==
  CASE prof = "walk"   -> WalkTrees
    [] prof = "select" -> SelectTrees
    [] prof = "rerun"  -> RerunTrees
    [] OTHER           -> { FlatTree(NumFiles(prof)), {} }

\* the half-hour slot of a file, counted from the first day of the month
SlotOf(entry) ==
  (IF entry[1] = <<>> THEN 0 ELSE 48 * IntOf(SubSeq(entry[1], 9, 10)))
  + IntOf(entry[2])

\* a file of the walk holds one frame stamped with its slot and one position
WalkFile(entry) == << Header(0, 1000 * SlotOf(entry), 0), PosA >>

\* the files of m groups that may be found under the name `entry`
Contents(prof, m, entry) ==
  CASE prof = "walk"   -> (IF m = 2 THEN { WalkFile(entry) } ELSE {})
    [] prof = "select" -> (IF m = 2 THEN { <<Header(0, 1000000, 0), PosA>> }
                                    ELSE {})
    [] OTHER           -> [1..m -> Alphabet(prof)]

----------------------------------------------------------------------------
(* State machine *)

InitWith(profs) ==
  /\ profile \in profs
  /\ cleanup_files \in (CASE profile \in {"batch", "rerun"} -> BOOLEAN
                          [] profile = "select" -> {TRUE}
                          [] OTHER              -> {FALSE})
  /\ skip_finalize \in (IF profile \in {"batch", "rerun"} THEN BOOLEAN
                                                          ELSE {FALSE})
  /\ tree \in Trees(profile)
  /\ queue = <<>>
  /\ file = NoFile
  /\ errors = {}
  /\ missing = {}
  /\ removed = {}
  /\ delete_failed = {}
  /\ run = 0
  /\ finalized = FALSE
  /\ temp_dropped = FALSE
  /\ fileNo = 0
  /\ pc = "start"
  /\ points = <<>>
  /\ slices = <<>>
  /\ index = 0
  /\ i = 0
  /\ now = <<0, 0>>
  /\ acinfo = EmptyMap
  /\ last_seen = EmptyMap
  /\ data = <<>>
  /\ sink = <<>>
  /\ total_records = 0
  /\ files_to_cleanup = <<>>
  /\ firebase_initialized = FALSE
  /\ auth_header = <<FALSE, <<>>>>
  /\ endpoint = "none"
  /\ api_pc = "off"
  /\ user = <<>>
  /\ status = 0
  /\ validated = FALSE
  /\ queried = FALSE
  /\ requests = 0

Init == InitWith(Profiles)

argVars == <<profile, cleanup_files, skip_finalize, run>>

dbVars == <<finalized, temp_dropped>>

batchVars == <<argVars, queue, fileNo, sink, total_records, files_to_cleanup,
               removed, delete_failed, dbVars>>

parseVars == <<points, slices, index, i, now, acinfo, last_seen, data>>

\* a down-sampler map that outlives the call: what the previous file left
StaleLastSeen ==
  IF sink = <<>> THEN EmptyMap
  ELSE LET d == sink[Len(sink)]
       IN  [h \in { d[k].hex : k \in 1..Len(d) } |->
              d[CHOOSE k \in 1..Len(d) :
                  d[k].hex = h /\ \A l \in (k + 1)..Len(d) : d[l].hex # h].t]

\* last_seen = {}, once per call of parse_binary_file
FreshLastSeen == EmptyMap

\* a state table created once per file instead of once per frame
CarriedTable == acinfo

\* acinfo = {}, at the head of the frame loop
FreshTable == EmptyMap

\* an exception handler that returns what was decoded so far
ErrorResultPartial == data

\* return [] of the exception handler
ErrorResult == <<>>

\* parse_binary_file returns `result`; its locals go out of scope
ReturnWith(result) ==
  /\ pc' = "returned"
  /\ data' = result
  /\ points' = <<>>
  /\ slices' = <<>>
  /\ index' = 0
  /\ i' = 0
  /\ now' = <<0, 0>>
  /\ acinfo' = EmptyMap
  /\ last_seen' = EmptyMap

\* an exception inside the try block: it is logged and [] is returned
Raise ==
  /\ ReturnWith(ErrorResult)
  /\ errors' = errors \cup {fileNo}

\* the head of process_directory: a root that is missing or no directory
\* returns 0; otherwise the partitions and their files are put in order
ListDir ==
  /\ pc = "start"
  /\ IF RootDir \in tree
     THEN /\ queue' = WorkList(tree)
          /\ pc' = "idle"
     ELSE /\ queue' = <<>>
          /\ pc' = "done"
  /\ UNCHANGED <<argVars, tree, fileNo, sink, total_records, files_to_cleanup,
                 removed, delete_failed, dbVars, file, errors, missing,
                 parseVars>>
  /\ UNCHANGED apiVars

\* process_directory calls parse_binary_file on the next file: if it exists
\* it is read and scanned for aligned sentinels, and the per-file maps are
\* created; a missing or empty file and one without sentinel return []
OpenFile ==
  /\ pc = "idle"
  /\ fileNo < Len(queue)
  /\ \E m \in Lengths(profile), exists \in ExistsChoices(profile) :
     \E g \in Contents(profile, m, queue[fileNo + 1]), cut \in Cuts(profile, m) :
     LET f == IF ~exists THEN <<>>
              ELSE IF KeepsFile(profile) /\ fileNo >= 1
                   THEN Variant(profile, file[2])
                   ELSE FileOf(g, cut)
     IN
       /\ file' = IF KeepsFile(profile) /\ fileNo >= 1 THEN file
                  ELSE <<exists, f>>
       /\ missing' = IF exists THEN missing ELSE missing \cup {fileNo}
       /\ tree' = IF exists THEN tree ELSE tree \ {queue[fileNo + 1]}
       /\ IF ~exists \/ Len(f) = 0 \/ Scan(f) = <<>>
          THEN ReturnWith(<<>>)
          ELSE /\ pc' = "frame"
               /\ points' = f
               /\ slices' = Scan(f)
               /\ index' = 0
               /\ last_seen' = FreshLastSeen
               /\ data' = <<>>
               /\ UNCHANGED <<i, now, acinfo>>
  /\ UNCHANGED <<batchVars, errors>>
  /\ UNCHANGED apiVars

\* head of the frame loop: fresh state table, frame timestamp, skip the header
FrameStart ==
  /\ pc = "frame"
  /\ IF slices[index + 1] + 2 >= Len(points)
     THEN Raise
     ELSE /\ acinfo' = FreshTable
          /\ now' = NowOf(At(points, slices[index + 1] + 1),
                          At(points, slices[index + 1] + 2))
          /\ i' = slices[index + 1] + 4
          /\ pc' = "record"
          /\ UNCHANGED <<points, slices, index, last_seen, data, errors>>
  /\ UNCHANGED <<batchVars, tree, file, missing>>
  /\ UNCHANGED apiVars

\* a record loop that only ends with the file
AtRecordToEnd == pc = "record" /\ i < Len(points)

\* the record loop may run its body
AtRecord == pc = "record" /\ i < Len(points) /\ At(points, i) # Sentinel

\* one iteration of the record loop
RecordStep ==
  /\ AtRecord
  /\ IF RecordRaises(points, i)
     THEN Raise
     ELSE LET lat == At(points, i + 1)
              lon == At(points, i + 2)
              h   == HexOf(At(points, i))
              fs  == IF IsIdentity(lat) THEN IdentityTuple(points, i)
                                        ELSE Lookup(acinfo, h)
              inrange == InRange(lat, lon)
              emit == inrange /\ Gate(last_seen, h, now)
          IN  /\ acinfo' = IF IsIdentity(lat) THEN StoreIdentity(acinfo, h, fs)
                                              ELSE acinfo
              /\ data' = IF emit THEN Append(data, Emitted(points, i, now, fs))
                                 ELSE data
              /\ last_seen' = NextLastSeen(last_seen, h, now,
                                            Passes(inrange, Gate(last_seen, h, now)))
              /\ i' = i + 4
              /\ UNCHANGED <<pc, points, slices, index, now, errors>>
  /\ UNCHANGED <<batchVars, tree, file, missing>>
  /\ UNCHANGED apiVars

\* the record loop ends at a sentinel or at the end of the file
FrameEnd ==
  /\ pc = "record"
  /\ ~AtRecord
  /\ IF index + 1 < Len(slices)
     THEN /\ index' = index + 1
          /\ pc' = "frame"
          /\ UNCHANGED <<points, slices, i, now, acinfo, last_seen, data>>
     ELSE ReturnWith(data)
  /\ UNCHANGED <<batchVars, tree, file, errors, missing>>
  /\ UNCHANGED apiVars

\* a file loop that hands every returned list to the loader
ShouldAppendAlways(d) == TRUE

\* if data:
ShouldAppend(d) == d # <<>>

\* a file loop that logs a loader error and goes on
AfterLoadErrorGoOn == "idle"

\* df.to_sql raises: nothing catches it before main, which raises it again
AfterLoadError == "load_failed"

\* a loader called with if_exists="replace"
SinkReplace(table, d) == <<d>>

\* df.to_sql(name="adsb_temp", if_exists="append"): one batch, in the order
\* of the list
SinkAppend(table, d) == Append(table, d)

\* a cleanup list that only takes the files that were loaded
ToCleanupIfLoaded(d) == d # <<>>

\* files_to_cleanup.append(file_path) stands outside the if data: block
ToCleanup(d) == TRUE

\* the rest of the body of the file loop: a non-empty list is appended to
\* adsb_temp, unless the loader raises, and counted; with cleanup_files the
\* file is put on the cleanup list
Load ==
  /\ pc = "returned"
  /\ \E ok \in BOOLEAN :
       IF ShouldAppend(data) /\ ~ok
       THEN /\ pc' = AfterLoadError
            /\ UNCHANGED <<sink, total_records, files_to_cleanup, fileNo, data,
                           file>>
       ELSE /\ sink' = IF ShouldAppend(data) THEN SinkAppend(sink, data) ELSE sink
            /\ total_records' = IF ShouldAppend(data)
                                THEN total_records + Len(data)
                                ELSE total_records
            /\ files_to_cleanup' = IF cleanup_files /\ ToCleanup(data)
                                   THEN Append(files_to_cleanup, fileNo)
                                   ELSE files_to_cleanup
            /\ fileNo' = fileNo + 1
            /\ pc' = "idle"
            /\ data' = <<>>
            /\ file' = IF KeepsFile(profile) THEN file ELSE NoFile
  /\ UNCHANGED <<argVars, tree, queue, removed, delete_failed, dbVars, errors,
                 missing, points, slices, index, i, now, acinfo, last_seen>>
  /\ UNCHANGED apiVars

\* a cleanup block that is part of the body of the file loop
BatchOverAnyTime == TRUE

\* the cleanup block follows the two loops
BatchOver == fileNo = Len(queue)

\* a cleanup loop without the try block: the first failure ends it
RemovedUntilFailure(list, failed) ==
  { list[k] : k \in { j \in 1..Len(list) : \A l \in 1..j : list[l] \notin failed } }

\* for file_path in files_to_cleanup: try os.remove, except log
RemovedBy(list, failed) ==
  { list[k] : k \in { j \in 1..Len(list) : list[j] \notin failed } }

\* the file loops are over: the files of the cleanup list are removed, a
\* failing os.remove is logged and skipped, and total_records is returned
Finish ==
  /\ pc = "idle"
  /\ BatchOver
  /\ LET listed == { files_to_cleanup[k] : k \in 1..Len(files_to_cleanup) }
     IN  \E failed \in SUBSET listed :
           /\ missing \cap listed \subseteq failed
           /\ removed' = RemovedBy(files_to_cleanup, failed)
           /\ delete_failed' = failed
           /\ tree' = tree \ { queue[k + 1] : k \in removed' }
  /\ pc' = "done"
  /\ UNCHANGED <<argVars, queue, fileNo, sink, total_records, files_to_cleanup,
                 dbVars, file, errors, missing, parseVars>>
  /\ UNCHANGED apiVars

\* a main that finalizes whatever --skip-finalize says
ShouldFinalizeAlways(total, skip) == total # 0

\* return when total_records == 0; if not args.skip_finalize
ShouldFinalize(total, skip) == total # 0 /\ ~skip

\* main after process_directory: nothing to finalize when no record was
\* loaded or with --skip-finalize; otherwise create_indexes_and_finalize,
\* which rolls back and raises on an error, then cleanup_temp_table
MainFinish ==
  /\ pc = "done"
  /\ IF ~ShouldFinalize(total_records, skip_finalize)
     THEN /\ pc' = "exit"
          /\ UNCHANGED dbVars
     ELSE \E outcome \in {"exit", "finalize_failed", "drop_failed"} :
            /\ finalized' = (outcome # "finalize_failed")
            /\ temp_dropped' = (outcome = "exit")
            /\ pc' = outcome
  /\ UNCHANGED <<profile, cleanup_files, skip_finalize, run, tree, queue,
                 fileNo, sink, total_records, files_to_cleanup, removed,
                 delete_failed, file, errors, missing, parseVars>>
  /\ UNCHANGED apiVars

\* the program is started again on the same root after it has ended without
\* an error: the locals of the earlier run are gone, a dropped adsb_temp is
\* empty, the directory tree is what the earlier run left
Rerun ==
  /\ pc = "exit"
  /\ run < MaxReruns
  /\ run' = run + 1
  /\ pc' = "start"
  /\ queue' = <<>>
  /\ fileNo' = 0
  /\ total_records' = 0
  /\ files_to_cleanup' = <<>>
  /\ errors' = {}
  /\ missing' = {}
  /\ file' = NoFile
  /\ sink' = IF temp_dropped THEN <<>> ELSE sink
  /\ finalized' = FALSE
  /\ temp_dropped' = FALSE
  /\ UNCHANGED <<profile, cleanup_files, skip_finalize, tree, removed,
                 delete_failed, parseVars>>
  /\ UNCHANGED apiVars

Next ==
  \/ ListDir
  \/ OpenFile
  \/ FrameStart
  \/ RecordStep
  \/ FrameEnd
  \/ Load
  \/ Finish
  \/ MainFinish

NextRerun == Next \/ Rerun

Spec == Init /\ [][Next]_vars

SpecGate == InitWith({"gate"}) /\ [][Next]_vars
SpecSpacing == InitWith({"spacing"}) /\ [][Next]_vars
SpecState == InitWith({"state"}) /\ [][Next]_vars
SpecDecode == InitWith({"decode"}) /\ [][Next]_vars
SpecBatch == InitWith({"batch"}) /\ [][Next]_vars
SpecWalk == InitWith({"walk"}) /\ [][Next]_vars
SpecSquawk == InitWith({"squawk"}) /\ [][Next]_vars
SpecHex == InitWith({"hex"}) /\ [][Next]_vars
SpecSkip == InitWith({"skip"}) /\ [][Next]_vars
SpecSelect == InitWith({"select"}) /\ [][Next]_vars
SpecLoad == InitWith({"load"}) /\ [][Next]_vars
SpecRerun == InitWith({"rerun"}) /\ [][NextRerun]_vars
SpecCleanup == InitWith({"rerun"}) /\ [][Next]_vars
SpecScan == InitWith({"scan"}) /\ [][Next]_vars
SpecLead == InitWith({"lead"}) /\ [][Next]_vars
SpecRange == InitWith({"range"}) /\ [][Next]_vars

TypeOK ==
  /\ profile \in Profiles \cup {"api"}
  /\ pc \in {"start", "idle", "frame", "record", "returned", "done",
            "load_failed", "exit", "finalize_failed", "drop_failed"}
  /\ fileNo \in 0..Len(queue)
  /\ errors \subseteq 0..fileNo
  /\ missing \subseteq 0..fileNo
  /\ delete_failed \cap removed = {}
  /\ run \in 0..MaxReruns
  /\ total_records >= 0

----------------------------------------------------------------------------
(* The API: require_firebase_auth, validate_params and the protected views *)

MaxHeaderAtoms == 3
MaxRequests == 2

\* what a header text is made of: two spellings of the scheme, a blank and
\* four ID tokens
TokenAtoms == {"tA", "tB", "tE", "tX"}
HeaderAtoms == {"Bearer", "bearer", " "} \cup TokenAtoms

\* the Authorization headers a request may carry: none, or a text
Headers ==
  { <<FALSE, <<>>>> }
  \cup { <<TRUE, a>> : a \in UNION { [1..n -> HeaderAtoms] : n \in 0..MaxHeaderAtoms } }

ProtectedEndpoints == {"get_by_bbox", "get_intersecting_bboxes"}

\* auth_header.split(): the maximal runs without a blank
RECURSIVE Split(_)
Split(a) ==
  IF a = <<>> THEN <<>>
  ELSE IF Head(a) = " " THEN Split(Tail(a))
  ELSE LET n == CHOOSE n \in 1..Len(a) :
                  /\ \A k \in 1..n : a[k] # " "
                  /\ (n = Len(a) \/ a[n + 1] = " ")
       IN  <<SubSeq(a, 1, n)>> \o Split(SubSeq(a, n + 1, Len(a)))

\* auth.verify_id_token(token): <<TRUE, claims>>, or <<FALSE, <<>>>> when it
\* raises; tX is a token that has expired, and a text that is no ID token
\* does not verify either
VerifyIdToken(token) ==
  CASE token = <<"tA">> -> <<TRUE, [email |-> <<"alice", "@bellingcat.com">>]>>
    [] token = <<"tB">> -> <<TRUE, [email |-> <<"bob", "@gmail.com">>]>>
    [] token = <<"tE">> -> <<TRUE, [email |-> <<"eve", "@bellingcat.com", ".evil.org">>]>>
    [] OTHER            -> <<FALSE, <<>>>>

\* a domain test that looks for the domain anywhere in the address
AllowedAnywhere(email) == \E k \in 1..Len(email) : email[k] = "@bellingcat.com"

\* email.endswith('@bellingcat.com')
Allowed(email) == email # <<>> /\ email[Len(email)] = "@bellingcat.com"

\* verify_firebase_token(token), once Firebase is known to be initialized:
\* the claims, or None
VerifyFirebaseToken(initialized, token) ==
  IF ~initialized THEN None
  ELSE IF ~VerifyIdToken(token)[1] THEN None
  ELSE IF ~Allowed(VerifyIdToken(token)[2].email) THEN None
  ELSE VerifyIdToken(token)[2]

InitApi ==
  /\ profile = "api"
  /\ cleanup_files = FALSE
  /\ skip_finalize = FALSE
  /\ tree = {}
  /\ queue = <<>>
  /\ file = NoFile
  /\ errors = {}
  /\ missing = {}
  /\ removed = {}
  /\ delete_failed = {}
  /\ run = 0
  /\ finalized = FALSE
  /\ temp_dropped = FALSE
  /\ fileNo = 0
  /\ pc = "exit"
  /\ points = <<>>
  /\ slices = <<>>
  /\ index = 0
  /\ i = 0
  /\ now = <<0, 0>>
  /\ acinfo = EmptyMap
  /\ last_seen = EmptyMap
  /\ data = <<>>
  /\ sink = <<>>
  /\ total_records = 0
  /\ files_to_cleanup = <<>>
  /\ firebase_initialized \in BOOLEAN
  /\ auth_header = <<FALSE, <<>>>>
  /\ endpoint = "none"
  /\ api_pc = "wait"
  /\ user = <<>>
  /\ status = 0
  /\ validated = FALSE
  /\ queried = FALSE
  /\ requests = 0

\* the response of a decorator or view ends the request
Respond(code) ==
  /\ status' = code
  /\ api_pc' = "responded"

\* decorated_function of require_firebase_auth, up to the call of f: 401
\* without a header or with one that is not "Bearer <token>", 403 when
\* verify_firebase_token returns None; verify_firebase_token tries to
\* initialize Firebase when the import could not
RequireFirebaseAuth ==
  /\ api_pc = "request"
  /\ IF ~auth_header[1] \/ auth_header[2] = <<>>
     THEN Respond(401) /\ UNCHANGED <<firebase_initialized, user>>
     ELSE LET parts == Split(auth_header[2]) IN
          IF Len(parts) # 2 \/ parts[1] # <<"Bearer">>
          THEN Respond(401) /\ UNCHANGED <<firebase_initialized, user>>
          ELSE \E init_ok \in BOOLEAN :
                 LET initialized == firebase_initialized \/ init_ok
                     decoded == VerifyFirebaseToken(initialized, parts[2])
                 IN  /\ firebase_initialized' = initialized
                     /\ IF decoded = None
                        THEN Respond(403) /\ UNCHANGED user
                        ELSE /\ user' = decoded
                             /\ api_pc' = "validate"
                             /\ UNCHANGED status
  /\ UNCHANGED <<loaderVars, auth_header, endpoint, validated, queried, requests>>

\* decorated_function of validate_params, up to the call of f: the error
\* response of the validator, 500 on an exception, or the view
ValidateParams ==
  /\ api_pc = "validate"
  /\ validated' = TRUE
  /\ \E outcome \in {"ok", "errors", "exception"} :
       CASE outcome = "ok"     -> api_pc' = "view" /\ UNCHANGED status
         [] outcome = "errors" -> Respond(400)
         [] OTHER              -> Respond(500)
  /\ UNCHANGED <<loaderVars, firebase_initialized, auth_header, endpoint, user,
                 queried, requests>>

\* get_by_bbox or get_intersecting_bboxes: the query is built and run
View ==
  /\ api_pc = "view"
  /\ queried' = TRUE
  /\ \E code \in {200, 400, 500} : Respond(code)
  /\ UNCHANGED <<loaderVars, firebase_initialized, auth_header, endpoint, user,
                 validated, requests>>

\* the response is sent and the request context is gone
EndRequest ==
  /\ api_pc = "responded"
  /\ api_pc' = "wait"
  /\ auth_header' = <<FALSE, <<>>>>
  /\ endpoint' = "none"
  /\ user' = <<>>
  /\ status' = 0
  /\ validated' = FALSE
  /\ queried' = FALSE
  /\ UNCHANGED <<loaderVars, firebase_initialized, requests>>

\* a request for a protected endpoint arrives
Receive ==
  /\ api_pc = "wait"
  /\ requests < MaxRequests
  /\ requests' = requests + 1
  /\ auth_header' \in Headers
  /\ endpoint' \in ProtectedEndpoints
  /\ api_pc' = "request"
  /\ UNCHANGED <<loaderVars, firebase_initialized, user, status, validated,
                 queried>>

NextApi ==
  \/ Receive
  \/ EndRequest
  \/ RequireFirebaseAuth
  \/ ValidateParams
  \/ View

SpecApi == InitApi /\ [][NextApi]_vars

----------------------------------------------------------------------------
(* Helpers of the properties *)

\* the record loop is about to decode the record at i without an error
Decoding == AtRecord /\ ~RecordRaises(points, i)

\* the step appends exactly one record to data
Emits == Len(data') = Len(data) + 1 /\ SubSeq(data', 1, Len(data)) = data

\* the record loop has run to the end of the file
AtEndOfFile == pc = "record" /\ i >= Len(points)

\* the indices of d that hold a record of aircraft h
IndicesOf(d, h) == { k \in 1..Len(d) : d[k].hex = h }

Max(S) == CHOOSE x \in S : \A y \in S : y <= x

\* a and b are neighbours in the sub-list of d of one aircraft
Neighbours(d, a, b) ==
  /\ a < b
  /\ d[a].hex = d[b].hex
  /\ \A c \in (a + 1)..(b - 1) : d[c].hex # d[a].hex

Spaced(d) ==
  \A a, b \in 1..Len(d) :
    Neighbours(d, a, b) => ElapsedGe(d[b].t, d[a].t, 60000)

\* the timestamps of the frames of the file decrease somewhere
TimeGoesBack ==
  \E k \in 1..(Len(slices) - 1) :
    /\ slices[k + 1] + 2 < Len(points)
    /\ At(points, slices[k + 1] + 1) = At(points, slices[k] + 1)
    /\ At(points, slices[k + 1] + 2) < At(points, slices[k] + 2)

----------------------------------------------------------------------------
(* C1: in the list built and returned by parse_binary_file, and in every   *)
(* batch handed to the sink, two records of the same hex that are          *)
(* neighbours in emission order have timestamps at least 60 s apart,       *)
(* whatever the order of the frame timestamps in the file.                 *)
\* C1: neighbouring records of one hex are >= 60 s apart, in data and in the sink
C1_MinGap == Spaced(data) /\ \A k \in 1..Len(sink) : Spaced(sink[k])

\* a file whose frame timestamps go back has been parsed to its end and two
\* records of one aircraft were emitted around a record of another
C1_Witness ==
  /\ AtEndOfFile
  /\ TimeGoesBack
  /\ \E a, b \in 1..Len(data) : Neighbours(data, a, b) /\ b > a + 1

----------------------------------------------------------------------------
(* C2: a Position that passed the coordinate test is emitted with the      *)
(* frame timestamp iff its hex has no entry in last_seen or the frame      *)
(* timestamp is at least 60 s after last_seen[hex]; last_seen[hex] becomes *)
(* the frame timestamp exactly when the record is emitted and last_seen is *)
(* unchanged when it is dropped, so last_seen always holds the timestamp   *)
(* of the last emitted record of each hex; positions at 1000, 1030, 1061   *)
(* of one hex emit those at 1000 and 1061.                                 *)

C2_ExampleFile ==
  Flatten(<<Header(0, 1000000, 0), PosA, Header(0, 1030000, 0), PosA,
            Header(0, 1061000, 7), PosA>>)

C2_GateStep ==
  (Decoding /\ -90000000 < At(points, i + 1) /\ At(points, i + 1) < 90000000
            /\ -180000000 < At(points, i + 2) /\ At(points, i + 2) < 180000000)
  => LET h == HexOf(At(points, i))
         open == \/ h \notin DOMAIN last_seen
                 \/ ElapsedGe(now, last_seen[h], 60000)
     IN  /\ open <=> Emits
         /\ Emits => /\ data'[Len(data')].t = now
                     /\ data'[Len(data')].hex = h
                     /\ DOMAIN last_seen' = DOMAIN last_seen \cup {h}
                     /\ last_seen'[h] = now
                     /\ \A g \in DOMAIN last_seen \ {h} :
                          last_seen'[g] = last_seen[g]
         /\ ~open => data' = data /\ last_seen' = last_seen

C2_LastEmitted ==
  pc \in {"frame", "record"} =>
    /\ DOMAIN last_seen = { data[k].hex : k \in 1..Len(data) }
    /\ \A h \in DOMAIN last_seen :
         last_seen[h] = data[Max(IndicesOf(data, h))].t

C2_Example ==
  (AtEndOfFile /\ points = C2_ExampleFile) =>
    [k \in 1..Len(data) |-> data[k].t] = << <<0, 1000000>>, <<0, 1061000>> >>

\* C2: emit iff no entry or >= 60 s since last_seen[hex]; last_seen changes
\* exactly on emission and holds the last emitted timestamp; the example holds
C2_Gate == [][C2_GateStep]_vars /\ [](C2_LastEmitted /\ C2_Example)

\* the example file has been parsed to its end: the position at 1030 was
\* dropped and the one at 1061 was measured from the emission at 1000
C2_Witness ==
  /\ AtEndOfFile
  /\ points = C2_ExampleFile
  /\ Len(data) = 2
  /\ last_seen[HexOf(HexA)] = <<0, 1061000>>

----------------------------------------------------------------------------
(* Helpers of the state-table properties: the records of the file, read    *)
(* from points, independently of acinfo.                                   *)

\* the word indices lo, lo + 4, ... below hi whose first three words exist
Groups(lo, hi) ==
  { j \in lo..(hi - 1) : (j - lo) % 4 = 0 /\ j + 2 < Len(points) }

\* the group at j is a record of aircraft h with second word > 2^30
IdentityFor(j, h) ==
  /\ At(points, j) # 243235997
  /\ HexOf(At(points, j)) = h
  /\ At(points, j + 1) > 1073741824

\* the group at j is a record of aircraft h that passes the coordinate test
InRangeFor(j, h) ==
  /\ At(points, j) # 243235997
  /\ HexOf(At(points, j)) = h
  /\ -90000000 < At(points, j + 1) /\ At(points, j + 1) < 90000000
  /\ -180000000 < At(points, j + 2) /\ At(points, j + 2) < 180000000

FrameFirst == slices[index + 1] + 4

FrameLimit == IF index + 1 < Len(slices) THEN slices[index + 2] ELSE Len(points)

\* Identity records of h: in the current frame before i, in the whole current
\* frame, and in the frames before the current one
IdsBefore(h) == { j \in Groups(FrameFirst, i) : IdentityFor(j, h) }
IdsInFrame(h) == { j \in Groups(FrameFirst, FrameLimit) : IdentityFor(j, h) }
IdsEarlierFrames(h) ==
  { j \in Groups(slices[1] + 4, slices[index + 1]) : IdentityFor(j, h) }

\* in-range Positions of h anywhere in the file before i
InRangeEarlier(h) == { j \in Groups(slices[1] + 4, i) : InRangeFor(j, h) }

CurHex == HexOf(At(points, i))

NewRecord == data'[Len(data')]

----------------------------------------------------------------------------
(* C3 as stated: a Position emitted in a later frame, whose frame holds no *)
(* Identity of its hex, carries the flight and squawk of the most recent   *)
(* Identity of that hex in an earlier frame of the file.                   *)
C3_CarryOverStep ==
  (Decoding /\ Emits /\ index >= 1
     /\ IdsInFrame(CurHex) = {} /\ IdsEarlierFrames(CurHex) # {})
  => <<NewRecord.flight, NewRecord.squawk>>
       = IdentityTuple(points, Max(IdsEarlierFrames(CurHex)))

C3_FrameScopedStep ==
  (Decoding /\ Emits /\ index >= 1
     /\ IdsBefore(CurHex) = {} /\ IdsEarlierFrames(CurHex) # {})
  => NewRecord.flight = None /\ NewRecord.squawk = None

C3_TableOfFrame ==
  pc = "record" =>
    DOMAIN acinfo =
      { HexOf(At(points, j)) :
          j \in { k \in Groups(FrameFirst, i) : At(points, k + 1) > 1073741824 } }

C3_ExampleFile ==
  Flatten(<<Header(0, 1000000, 0), Identity(HexA, 1800, TextBAW),
            Header(0, 1061000, 0), PosA>>)

----------------------------------------------------------------------------
(* C4: the down-sampler map lives for one file.  The first in-range        *)
(* Position of a hex in a file is emitted whatever the sink received from  *)
(* earlier files, and a later in-range Position of that hex in the same    *)
(* file, in the same or a later frame, is emitted iff 60 s have elapsed    *)
(* since the last record of that hex emitted from this file.               *)
C4_PerFileStep ==
  (Decoding /\ InRangeFor(i, CurHex)) =>
    /\ InRangeEarlier(CurHex) = {} => Emits
    /\ IndicesOf(data, CurHex) # {} =>
         (Emits <=> ElapsedGe(now, data[Max(IndicesOf(data, CurHex))].t, 60000))

\* C4: the down-sampler map persists across frames and never across files
C4_PerFile == [][C4_PerFileStep]_vars

C4_ExampleFile ==
  Flatten(<<Header(0, 1000000, 0), PosA, Header(0, 1030000, 0), PosA>>)

\* the second file of a batch whose first file emitted the hex at 1030: the
\* position at 1000 was emitted, the one at 1030 of the next frame dropped
C4_Witness ==
  /\ AtEndOfFile
  /\ fileNo = 1
  /\ points = C4_ExampleFile
  /\ Len(sink) = 1
  /\ sink[1][1].hex = HexOf(HexA)
  /\ sink[1][1].t = <<0, 1030000>>
  /\ Len(data) = 1
  /\ data[1].t = <<0, 1000000>>

----------------------------------------------------------------------------
(* C5: every emitted record has -90000000 < lat_raw < 90000000 and         *)
(* -180000000 < lon_raw < 180000000; a Position with lat_raw = 90000000 is *)
(* never emitted, and one with lat_raw = 89999999 and an in-range lon is   *)
(* emitted when the gate is open for its hex.                              *)
StrictlyInside(r) ==
  /\ -90000000 < r.lat /\ r.lat < 90000000
  /\ -180000000 < r.lon /\ r.lon < 180000000

C5_AllInside ==
  /\ \A k \in 1..Len(data) : StrictlyInside(data[k])
  /\ \A b \in 1..Len(sink) : \A k \in 1..Len(sink[b]) : StrictlyInside(sink[b][k])

C5_BoundaryStep ==
  Decoding =>
    /\ At(points, i + 1) = 90000000 => data' = data
    /\ (/\ At(points, i + 1) = 89999999
        /\ -180000000 < At(points, i + 2) /\ At(points, i + 2) < 180000000
        /\ CurHex \notin DOMAIN last_seen)
       => Emits /\ NewRecord.lat = 89999999

\* C5: emitted coordinates are strictly inside the limits; 90000000 is
\* rejected and 89999999 accepted
C5_Coordinates == []C5_AllInside /\ [][C5_BoundaryStep]_vars

\* a Position one micro-degree inside the latitude limit has been emitted
C5_Witness ==
  /\ pc = "record"
  /\ Len(data) = 1
  /\ data[1].lat = 89999999
  /\ At(points, i - 3) = 89999999

----------------------------------------------------------------------------
(* C6: a record whose second word is > 1073741824 appends nothing to data  *)
(* and leaves last_seen as it is; it sets the state-table entry of its hex *)
(* and nothing else.  A record whose second word is <= 1073741824 leaves   *)
(* the state table as it is.                                               *)
C6_IdentityStep ==
  Decoding =>
    /\ At(points, i + 1) > 1073741824 =>
         /\ data' = data
         /\ last_seen' = last_seen
         /\ DOMAIN acinfo' = DOMAIN acinfo \cup {CurHex}
         /\ \A g \in DOMAIN acinfo \ {CurHex} : acinfo'[g] = acinfo[g]
         /\ UNCHANGED <<pc, points, slices, index, now, sink, total_records,
                        files_to_cleanup, fileNo>>
    /\ At(points, i + 1) <= 1073741824 => acinfo' = acinfo

\* C6: an Identity record only sets the state-table entry of its hex; any
\* other record leaves the state table alone
C6_IdentityOnly == [][C6_IdentityStep]_vars

\* an Identity record has just been decoded after a record was emitted
C6_Witness ==
  /\ pc = "record"
  /\ i >= FrameFirst + 4
  /\ At(points, i - 3) > 1073741824
  /\ HexOf(At(points, i - 4)) \in DOMAIN acinfo
  /\ Len(data) = 1
  /\ DOMAIN last_seen = {data[1].hex}

----------------------------------------------------------------------------
(* C7: an emitted Position carries flight = null and squawk = null when no *)
(* Identity of its hex precedes it in the scope of the state table (the    *)
(* current frame), and the flight and squawk of the most recent such       *)
(* Identity otherwise; Identity "BAW123  " / 1800 then a Position of the   *)
(* same hex gives flight "BAW123  " and squawk "1800".                     *)
C7_AttachStep ==
  (Decoding /\ Emits) =>
    IF IdsBefore(CurHex) = {}
    THEN NewRecord.flight = None /\ NewRecord.squawk = None
    ELSE <<NewRecord.flight, NewRecord.squawk>>
           = IdentityTuple(points, Max(IdsBefore(CurHex)))

C7_ExampleFile ==
  Flatten(<<Header(0, 1000000, 0), Identity(HexA, 1800, TextBAW), PosA>>)

C7_Example ==
  (AtEndOfFile /\ points = C7_ExampleFile) =>
    /\ Len(data) = 1
    /\ data[1].flight = <<66, 65, 87, 49, 50, 51, 32, 32>>
    /\ data[1].squawk = <<"1", "8", "0", "0">>

\* C7: an emitted Position carries the tuple of the most recent Identity of
\* its hex in the table's scope, or nulls; the BAW123 / 1800 example holds
C7_Attach == [][C7_AttachStep]_vars /\ []C7_Example

\* the example file has been parsed to its end
C7_Witness ==
  /\ AtEndOfFile
  /\ points = C7_ExampleFile
  /\ Len(data) = 1
  /\ data[1].flight = <<66, 65, 87, 49, 50, 51, 32, 32>>

----------------------------------------------------------------------------
(* C8: when the most recent Identity of a hex has a zero first byte in     *)
(* word 2 and an earlier Identity of that hex in the same scope had a call *)
(* sign, a Position emitted afterwards carries flight = null and the       *)
(* squawk of the most recent Identity.                                     *)
HasText(j) == At(points, j + 2) % 256 # 0

C8_ReplaceStep ==
  (/\ Decoding /\ Emits
   /\ IdsBefore(CurHex) # {}
   /\ ~HasText(Max(IdsBefore(CurHex)))
   /\ \E j \in IdsBefore(CurHex) : HasText(j))
  => /\ NewRecord.flight = None
     /\ NewRecord.squawk = SquawkOf(At(points, Max(IdsBefore(CurHex)) + 1))

\* C8: a later Identity without call sign discards the stored call sign
C8_Replace == [][C8_ReplaceStep]_vars

C8_ExampleFile ==
  Flatten(<<Header(0, 1000000, 0), Identity(HexA, 1800, TextBAW),
            Identity(HexA, 7700, <<0, 0>>), PosA>>)

\* call sign stored, then an Identity without one, then a Position
C8_Witness ==
  /\ AtEndOfFile
  /\ points = C8_ExampleFile
  /\ Len(data) = 1
  /\ data[1].flight = None
  /\ data[1].squawk = <<"7", "7", "0", "0">>

----------------------------------------------------------------------------
(* C9: every emitted record has gs absent or non-negative, whatever the    *)
(* high 16 bits of word 3.                                                 *)
C9_GsNonNegative ==
  \A k \in 1..Len(data) : data[k].gs = None \/ data[k].gs[1] >= 0

----------------------------------------------------------------------------
(* C10: every emitted record has its type in 0..12, whatever bits 27..31   *)
(* of word 0.                                                              *)
C10_TypeRange ==
  \A k \in 1..Len(data) : data[k].type \in 0..12

----------------------------------------------------------------------------
(* C11: every emitted alt is -123 or a multiple of 25: alt_raw is the low  *)
(* 16 bits of word 3 read as a signed 16-bit value, alt is -123 when       *)
(* alt_raw is -123 (never -3075) and 25 * alt_raw otherwise.               *)

\* the low 16 bits of w as a two's complement 16-bit value
Signed16(w) == LET u == w % 65536 IN IF u < 32768 THEN u ELSE u - 65536

C11_AltStep ==
  (Decoding /\ Emits) =>
    LET raw == Signed16(At(points, i + 3))
    IN  /\ raw \in -32768..32767
        /\ NewRecord.alt = IF raw = -123 THEN -123 ELSE 25 * raw

C11_AltValues ==
  /\ \A k \in 1..Len(data) : data[k].alt = -123 \/ data[k].alt % 25 = 0
  /\ \A b \in 1..Len(sink) : \A k \in 1..Len(sink[b]) :
       sink[b][k].alt = -123 \/ sink[b][k].alt % 25 = 0

\* C11: alt is -123 for alt_raw -123 and 25 * alt_raw otherwise, so -123 or a multiple of 25
C11_Altitude == [][C11_AltStep]_vars /\ []C11_AltValues

\* a record whose word 3 ends in 0xFF85 was emitted with the ground marker
C11_Witness ==
  /\ pc = "record"
  /\ data # <<>>
  /\ i >= 8
  /\ At(points, i - 1) % 65536 = 65413
  /\ data[Len(data)].alt = -123

----------------------------------------------------------------------------
(* C12 as stated: the squawk stored by an Identity is a string of exactly  *)
(* 4 characters for every value of the low 16 bits of word 1.              *)
C12_FourChars ==
  \A h \in DOMAIN acinfo : Len(acinfo[h][2]) = 4

C12_SquawkStep ==
  (Decoding /\ At(points, i + 1) > 1073741824) =>
    LET v == At(points, i + 1) % 65536
        s == acinfo'[CurHex][2]
    IN  /\ IsDigitName(s)
        /\ IntOf(s) = v
        /\ Len(s) = IF v <= 9999 THEN 4 ELSE 5

\* C12: the stored squawk is the decimal value of the low 16 bits, 4 characters up to 9999 and 5 above
C12_Squawk == [][C12_SquawkStep]_vars

\* one frame stored a padded squawk and a squawk of five digits
C12_Witness ==
  /\ pc = "record"
  /\ \E h \in DOMAIN acinfo : acinfo[h][2] = <<"0", "0", "0", "7">>
  /\ \E h \in DOMAIN acinfo : acinfo[h][2] = <<"6", "5", "5", "3", "5">>

----------------------------------------------------------------------------
(* C13: hex is the 6 lowercase hexadecimal digits of the low 24 bits of    *)
(* word 0, with '~' in front exactly when bit 24 is set; two records share *)
(* a key iff the low 25 bits of their words 0 are equal, whatever bits     *)
(* 25..31 hold.                                                            *)

LowerHex == <<"0", "1", "2", "3", "4", "5", "6", "7",
              "8", "9", "a", "b", "c", "d", "e", "f">>

RECURSIVE HexValue(_)
\* int(s, 16) of a string of lowercase hexadecimal digits
HexValue(s) ==
  IF Len(s) = 0 THEN 0
  ELSE 16 * HexValue(SubSeq(s, 1, Len(s) - 1))
       + (CHOOSE k \in 1..16 : LowerHex[k] = s[Len(s)]) - 1

\* the records of the frames before i that passed the coordinate test
PassedBefore ==
  { j \in Groups(slices[1] + 4, i) : /\ At(points, j) # 243235997
                            /\ StrictlyInside([lat |-> At(points, j + 1),
                                               lon |-> At(points, j + 2)]) }

C13_FormatStep ==
  (Decoding /\ Emits) =>
    LET w == At(points, i)
        h == NewRecord.hex
        flagged == (w \div 16777216) % 2 = 1
        digits == IF h[1] = "~" THEN Tail(h) ELSE h
    IN  /\ flagged <=> h[1] = "~"
        /\ Len(digits) = 6
        /\ \A k \in 1..6 : \E d \in 1..16 : LowerHex[d] = digits[k]
        /\ HexValue(digits) = w % 16777216

\* with one timestamp in the file a position is emitted iff its key is new
C13_KeyStep ==
  (Decoding /\ StrictlyInside([lat |-> At(points, i + 1),
                               lon |-> At(points, i + 2)])) =>
    (Emits <=> \A j \in PassedBefore :
                 At(points, j) % 33554432 # At(points, i) % 33554432)

C13_Keys ==
  pc = "record" =>
    Cardinality(DOMAIN last_seen) =
      Cardinality({ At(points, j) % 33554432 : j \in PassedBefore })

\* C13: hex is six lowercase hex digits of bits 0..23 with '~' iff bit 24; the key is the low 25 bits
C13_Hex == [][C13_FormatStep /\ C13_KeyStep]_vars /\ []C13_Keys

\* three positions were read: two differ in bit 24 only and were both
\* emitted, the third differs from an earlier one in bits 25..31 only and
\* was dropped
C13_Witness ==
  /\ pc = "record"
  /\ Len(points) = 16
  /\ slices = <<0>>
  /\ i = 16
  /\ Len(data) = 2
  /\ data[1].hex # data[2].hex
  /\ \E j, k \in {4, 8, 12} :
       /\ At(points, j) % 16777216 = At(points, k) % 16777216
       /\ At(points, j) % 33554432 # At(points, k) % 33554432
  /\ \E j, k \in {4, 8, 12} :
       /\ At(points, j) # At(points, k)
       /\ At(points, j) % 33554432 = At(points, k) % 33554432

----------------------------------------------------------------------------
(* C14: for a Position that passed the coordinate test, packing the        *)
(* decoded hex, type, lat_raw, lon_raw, alt_raw and gs_raw back into four  *)
(* words gives the record that was read.                                   *)

\* alt_raw and gs_raw of an emitted record
AltRawOf(r) == IF r.alt = -123 THEN -123 ELSE r.alt \div 25
GsRawOf(r) == IF r.gs = <<>> THEN -1 ELSE r.gs[1]

\* the four words built from the decoded fields: the address in bits 0..23,
\* bit 24 from the '~', the type in bits 27..31 of a 32-bit word, lat_raw,
\* lon_raw, gs_raw << 16 | alt_raw & 0xFFFF
Reencode(r) ==
  LET flagged == r.hex[1] = "~"
      digits  == IF flagged THEN Tail(r.hex) ELSE r.hex
      top     == IF r.type >= 16 THEN r.type - 32 ELSE r.type
  IN  << HexValue(digits) + (IF flagged THEN 16777216 ELSE 0) + 134217728 * top,
         r.lat,
         r.lon,
         65536 * GsRawOf(r) + (AltRawOf(r) % 65536) >>

RecordAt(k) ==
  << At(points, k), At(points, k + 1), At(points, k + 2), At(points, k + 3) >>

\* C14 as stated: the re-encoded record is the original, bit for bit
C14_RoundTripStep ==
  (Decoding /\ Emits) => Reencode(NewRecord) = RecordAt(i)

C14_RoundTrip == [][C14_RoundTripStep]_vars

C14_MaskedStep ==
  (Decoding /\ Emits) =>
    LET w0 == At(points, i)
        flags == (w0 \div 33554432) % 4
    IN  Reencode(NewRecord) =
          << w0 - 33554432 * flags, At(points, i + 1), At(points, i + 2),
             At(points, i + 3) >>

\* C14: the re-encoded record is the original with bits 25..26 of word 0 cleared
C14_RoundTripMasked == [][C14_MaskedStep]_vars

\* a record with every field at an extreme and bit 26 set has been emitted
C14_Witness ==
  /\ pc = "record"
  /\ Len(data) = 1
  /\ data[1].type = 31
  /\ data[1].hex[1] = "~"
  /\ data[1].gs = <<-32768>>
  /\ data[1].alt = -819200
  /\ data[1].lat < 0
  /\ (At(points, i - 4) \div 33554432) % 4 = 2

----------------------------------------------------------------------------
(* C15: with cleanup enabled, a file whose parse failed with an error and  *)
(* returned [] is not deleted.                                             *)
C15_DeleteOnlyParsed ==
  \A f \in removed : f \notin errors

----------------------------------------------------------------------------
(* C16: when decoding raises at any record or header (a read past the end  *)
(* of a truncated file), parse_binary_file returns the empty list, the     *)
(* records already decoded from the file are discarded, and                *)
(* process_directory goes on with the next file without raising.           *)

\* the next read of the parser is past the end of the array
ReadsPastEnd ==
  \/ pc = "frame" /\ slices[index + 1] + 2 >= Len(points)
  \/ AtRecord /\ i + 2 >= Len(points)

C16_RaiseStep ==
  /\ ReadsPastEnd => errors' = errors \cup {fileNo}
  /\ errors' # errors => /\ pc' = "returned"
                         /\ data' = <<>>
                         /\ sink' = sink
                         /\ fileNo' = fileNo

C16_LoadStep ==
  (pc = "returned" /\ fileNo \in errors) =>
    /\ pc' = "idle"
    /\ fileNo' = fileNo + 1
    /\ sink' = sink
    /\ total_records' = total_records

C16_GoesOn ==
  (pc = "idle" /\ fileNo < Len(queue)) => ENABLED OpenFile

\* C16: a decoding error returns [] and drops the decoded records; the file loop goes on
C16_ErrorSkipsFile == [][C16_RaiseStep /\ C16_LoadStep]_vars /\ []C16_GoesOn

\* the first file failed and loaded nothing; the second file has a record
\* decoded and is about to read past its end
C16_Witness ==
  /\ fileNo = 1
  /\ 0 \in errors
  /\ sink = <<>>
  /\ AtRecord
  /\ i + 2 >= Len(points)
  /\ data # <<>>

----------------------------------------------------------------------------
(* C17: when the append of a file's records to adsb_temp raises, the error *)
(* leaves process_directory and main: no later file is parsed or loaded    *)
(* and the finalization is not run.                                        *)

\* a returned non-empty list did not reach the sink: the loader raised
C17_FailStep ==
  (pc = "returned" /\ data # <<>> /\ sink' = sink) =>
    /\ pc' = "load_failed"
    /\ fileNo' = fileNo
    /\ total_records' = total_records

\* nothing runs after the failure
C17_NoStepAfter == pc # "load_failed"

C17_Stopped ==
  pc = "load_failed" =>
    /\ ~finalized
    /\ ~temp_dropped
    /\ removed = {}
    /\ Len(sink) <= fileNo

\* C17: a loader error ends the run: no later file is parsed or loaded, nothing is finalized
C17_LoaderErrorPropagates ==
  [][C17_FailStep /\ C17_NoStepAfter]_vars /\ []C17_Stopped

\* the loader failed on the first of two files
C17_Witness ==
  /\ pc = "load_failed"
  /\ fileNo = 0
  /\ Len(queue) = 2
  /\ data # <<>>
  /\ sink = <<>>

----------------------------------------------------------------------------
(* C18: for a file whose length in 32-bit words is not a multiple of 4,    *)
(* parse_binary_file returns the empty list, whatever the trailing words   *)
(* hold.                                                                   *)
C18_PartialFileSkipped ==
  (pc = "returned" /\ file[1] /\ Len(file[2]) % 4 # 0) => data = <<>>

----------------------------------------------------------------------------
(* C19: a missing file, a file of length zero, a file shorter than 16      *)
(* bytes and a file without a sentinel at an index that is a multiple of 4 *)
(* give no record, nothing is appended to the sink for them, and the batch *)
(* goes on with the next file.                                             *)

NoAlignedSentinel(words) ==
  \A k \in 1..Len(words) : (k - 1) % 4 = 0 => words[k] # 243235997

\* the file handed to parse_binary_file is one of the four kinds
NothingToRead ==
  \/ ~file[1]
  \/ Len(file[2]) = 0
  \/ Len(file[2]) < 4
  \/ NoAlignedSentinel(file[2])

C19_NoRecords ==
  /\ (pc \in {"frame", "record"} /\ NothingToRead) => data = <<>>
  /\ (pc = "returned" /\ NothingToRead) => data = <<>>
  /\ (pc = "idle" /\ fileNo < Len(queue)) => ENABLED OpenFile

C19_LoadStep ==
  (pc = "returned" /\ NothingToRead) =>
    /\ sink' = sink
    /\ total_records' = total_records
    /\ pc' = "idle"
    /\ fileNo' = fileNo + 1

\* C19: missing, empty, short and sentinel-free files give no record and no append; the batch goes on
C19_EmptyInputs == []C19_NoRecords /\ [][C19_LoadStep]_vars

\* the first file was missing; the second holds the sentinel value at word 1
\* only and has returned
C19_Witness ==
  /\ fileNo = 1
  /\ 0 \in missing
  /\ pc = "returned"
  /\ file[1]
  /\ Len(file[2]) = 8
  /\ file[2][2] = 243235997
  /\ NoAlignedSentinel(file[2])
  /\ sink = <<>>

----------------------------------------------------------------------------
(* C20: the date partitions are processed in ascending lexicographic order *)
(* of their names and the files of a partition in ascending numeric order  *)
(* of their names; a file is parsed and its records are appended before    *)
(* the next file is parsed, so the appends reach the sink in (partition,   *)
(* slot) order.                                                            *)

\* entry a comes before entry b in (partition, slot) order
EntryBefore(a, b) ==
  \/ LexLess(a[1], b[1])
  \/ a[1] = b[1] /\ IntOf(a[2]) < IntOf(b[2])

C20_QueueOrdered ==
  /\ \A a, b \in 1..Len(queue) : a < b => EntryBefore(queue[a], queue[b])
  /\ \A a \in 1..Len(queue) : queue[a] \in tree

\* while a file is parsed every earlier file has been appended, and nothing
\* of a later one
C20_OneAtATime ==
  pc \in {"idle", "frame", "record", "returned"} => Len(sink) = fileNo

\* batch k of the sink is the record of the k-th file of the order
C20_SinkOrdered ==
  /\ Len(sink) <= Len(queue)
  /\ \A k \in 1..Len(sink) :
       \A r \in 1..Len(sink[k]) : sink[k][r].t = <<0, 1000 * SlotOf(queue[k])>>
  /\ \A a, b \in 1..Len(sink) : a < b => sink[a][1].t[2] < sink[b][1].t[2]

C20_AppendStep ==
  sink' # sink =>
    /\ pc = "returned"
    /\ sink' = Append(sink, data)
    /\ fileNo' = fileNo + 1

\* C20: files are parsed and appended one at a time in (partition, slot) order
C20_Order ==
  [](C20_QueueOrdered /\ C20_OneAtATime /\ C20_SinkOrdered)
  /\ [][C20_AppendStep]_vars

\* two partitions with the files "2" and "10" each have been appended
C20_Witness ==
  /\ pc = "idle"
  /\ queue = << <<Jan02, <<"2">>>>, <<Jan02, <<"1", "0">>>>,
                <<Jan10, <<"2">>>>, <<Jan10, <<"1", "0">>>> >>
  /\ Len(sink) = 4
  /\ sink[2][1].t = <<0, 106000>>
  /\ sink[3][1].t = <<0, 482000>>

----------------------------------------------------------------------------
(* C21: the partitions are the child directories of the root whose names   *)
(* are YYYY-MM-DD calendar dates, or the root itself iff no child is one;  *)
(* only the entries of a partition whose name is all decimal digits with a *)
(* value in 0..47 are parsed, loaded or deleted.                           *)

\* d is four digits, two digits and two digits joined by '-', and names a
\* day of the calendar
CalendarDate(d) ==
  /\ Len(d) = 10
  /\ d[5] = "-" /\ d[8] = "-"
  /\ \A k \in {1, 2, 3, 4, 6, 7, 9, 10} : IsDigit(d[k])
  /\ LET y   == IntOf(SubSeq(d, 1, 4))
         m   == IntOf(SubSeq(d, 6, 7))
         day == IntOf(SubSeq(d, 9, 10))
         leap == y % 4 = 0 /\ (y % 100 # 0 \/ y % 400 = 0)
     IN  /\ y >= 1
         /\ m \in 1..12
         /\ day >= 1
         /\ day <= (CASE m = 2 -> (IF leap THEN 29 ELSE 28)
                      [] m \in {4, 6, 9, 11} -> 30
                      [] OTHER -> 31)

\* the child directories of the root that are named after a date
DatedChildren(t) ==
  { e[1] : e \in { x \in t : x[2] = <<>> /\ x[1] # <<>> /\ CalendarDate(x[1]) } }

\* e is a file a run may parse: a name of digits with a value in 0..47, in
\* a dated child, or in the root when there is no dated child
Selectable(e, t) ==
  /\ e[2] # <<>>
  /\ \A k \in 1..Len(e[2]) : IsDigit(e[2][k])
  /\ IntOf(e[2]) \in 0..47
  /\ IF DatedChildren(t) = {} THEN e[1] = <<>> ELSE e[1] \in DatedChildren(t)

C21_Selection ==
  /\ \A k \in 1..Len(queue) : Selectable(queue[k], tree)
  /\ (pc = "idle" /\ fileNo = 0) =>
       \A e \in tree : Selectable(e, tree) => \E k \in 1..Len(queue) : queue[k] = e

----------------------------------------------------------------------------
(* C22: in a batch without errors every record emitted for a file reaches  *)
(* the sink exactly once, in one append for the file and in the order of   *)
(* the records in the file; the count process_directory returns is the     *)
(* number of records appended.                                             *)

RECURSIVE CountOf(_)
\* the number of records in a sequence of batches
CountOf(batches) ==
  IF batches = <<>> THEN 0 ELSE Len(batches[1]) + CountOf(Tail(batches))

\* a record is put at the end of the list, from the record the loop is at,
\* and the loop only moves forward
C22_EmitStep ==
  (pc = "record" /\ pc' = "record") =>
    /\ i' = i + 4
    /\ data' # data =>
         /\ Emits
         /\ NewRecord.lat = At(points, i + 1)
         /\ NewRecord.lon = At(points, i + 2)
         /\ NewRecord.t = now

\* the list of a file goes to the sink whole, once, behind the earlier ones
C22_LoadStep ==
  (pc = "returned" /\ pc' = "idle") =>
    /\ fileNo' = fileNo + 1
    /\ IF data # <<>>
       THEN /\ Len(sink') = Len(sink) + 1
            /\ SubSeq(sink', 1, Len(sink)) = sink
            /\ sink'[Len(sink')] = data
       ELSE sink' = sink

C22_OtherStep ==
  pc # "returned" => sink' = sink /\ total_records' = total_records

C22_Count ==
  /\ total_records = CountOf(sink)
  /\ Len(sink) <= fileNo

\* C22: each file's records are appended once, whole and in order, and the count is the number appended
C22_ExactlyOnce ==
  [][C22_EmitStep /\ C22_LoadStep /\ C22_OtherStep]_vars /\ []C22_Count

\* both files of a batch gave two records each and 4 is returned
C22_Witness ==
  /\ pc = "done"
  /\ Len(sink) = 2
  /\ Len(sink[1]) = 2
  /\ Len(sink[2]) = 2
  /\ sink[1][1].hex # sink[1][2].hex
  /\ total_records = 4

----------------------------------------------------------------------------
(* C23: after a run with cleanup in which every deletion succeeded, a      *)
(* second run on the same root parses no file, appends nothing to the sink *)
(* and returns 0.                                                          *)

\* the listing of a run that follows a cleanup without a failure is empty
C23_ListStep ==
  (pc = "start" /\ run >= 1 /\ cleanup_files /\ delete_failed = {}) =>
    queue' = <<>>

\* a later run with an empty listing leaves the sink alone
C23_SinkStep ==
  (run >= 1 /\ pc # "start" /\ queue = <<>>) => sink' = sink

\* it opens no file and counts nothing
C23_NothingRead ==
  (run >= 1 /\ pc # "start" /\ queue = <<>>) =>
    /\ pc \in {"idle", "done", "exit"}
    /\ total_records = 0
    /\ file = <<FALSE, <<>>>>

----------------------------------------------------------------------------
(* C24: finalization runs exactly when the count is positive and           *)
(* --skip-finalize is absent, only after every file was loaded, and the    *)
(* temporary table is dropped only after create_indexes_and_finalize       *)
(* returned.                                                               *)

\* the database is touched only by main, after process_directory returned a
\* positive count for a whole batch, without --skip-finalize
C24_OnlyThen ==
  (\/ finalized' # finalized
   \/ temp_dropped' # temp_dropped
   \/ pc' \in {"finalize_failed", "drop_failed"}) =>
    /\ pc = "done"
    /\ total_records > 0
    /\ ~skip_finalize
    /\ fileNo = Len(queue)

\* with a positive count and no --skip-finalize, main does finalize; the
\* drop follows a finalization that returned, and a failed one leaves
\* adsb_temp in place
C24_Then ==
  (pc = "done" /\ total_records > 0 /\ ~skip_finalize) =>
    /\ pc' \in {"exit", "finalize_failed", "drop_failed"}
    /\ (pc' = "finalize_failed") = ~finalized'
    /\ (pc' = "exit") = temp_dropped'

\* otherwise main returns and leaves the database alone
C24_Else ==
  (pc = "done" /\ (total_records = 0 \/ skip_finalize)) =>
    /\ pc' = "exit"
    /\ finalized' = finalized
    /\ temp_dropped' = temp_dropped

\* C24: finalize iff count > 0 and no --skip-finalize, after the whole batch; drop only after a finalization that returned
C24_Finalize ==
  /\ [][C24_OnlyThen /\ C24_Then /\ C24_Else]_vars
  /\ [](temp_dropped => finalized)

\* both files were loaded and create_indexes_and_finalize raised
C24_Witness ==
  /\ pc = "finalize_failed"
  /\ Len(queue) = 2
  /\ Len(sink) = 2
  /\ ~finalized
  /\ ~temp_dropped

----------------------------------------------------------------------------
(* C27: a failing deletion is logged and skipped: the other files of the   *)
(* cleanup list are still removed, no exception leaves process_directory   *)
(* and the count it returns is the count of the loads.                     *)

\* the files on the cleanup list
C27_Listed == { files_to_cleanup[k] : k \in 1..Len(files_to_cleanup) }

\* the cleanup block removes every listed file but the failing ones, returns
\* normally and leaves the count alone
C27_CleanupStep ==
  (pc = "idle" /\ fileNo = Len(queue)) =>
    /\ pc' = "done"
    /\ removed' = C27_Listed \ delete_failed'
    /\ delete_failed' \subseteq C27_Listed
    /\ total_records' = total_records
    /\ \A k \in removed' : queue[k + 1] \notin tree'

\* C27: a deletion failure neither ends the cleanup loop nor raises nor changes the returned count
C27_DeleteFailure == [][C27_CleanupStep]_vars

\* the first deletion failed, the second file was removed all the same
C27_Witness ==
  /\ pc = "done"
  /\ files_to_cleanup = <<0, 1>>
  /\ delete_failed = {0}
  /\ removed = {1}
  /\ missing = {}
  /\ total_records > 0

----------------------------------------------------------------------------
(* C28: files are deleted in one block after the last file of the batch;   *)
(* a loader failure leaves every file in place, and so does a run without  *)
(* cleanup.                                                                *)

\* the program removes files only in the step after the file loops, and only
\* with cleanup_files
C28_RemoveStep ==
  /\ (removed' # removed) =>
       (pc = "idle" /\ fileNo = Len(queue) /\ cleanup_files)
  /\ \A e \in tree \ tree' :
       \E k \in 1..Len(queue) :
         /\ queue[k] = e
         /\ \/ k - 1 \in removed'
            \/ k - 1 \in missing' \ missing

\* nothing is removed before the batch is over, after a loader failure or
\* without cleanup
C28_NoneRemoved ==
  /\ (removed # {}) => (fileNo = Len(queue) /\ pc \in {"done", "exit", "finalize_failed", "drop_failed"})
  /\ (pc = "load_failed") => (removed = {})
  /\ ~cleanup_files => (removed = {})

\* C28: deletion happens only after the whole batch, never after a loader failure, never without cleanup
C28_Deferred == [][C28_RemoveStep]_vars /\ []C28_NoneRemoved

\* the first file was loaded and listed for cleanup, the loader failed on
\* the second, and the first is still there
C28_Witness ==
  /\ pc = "load_failed"
  /\ cleanup_files
  /\ fileNo = 1
  /\ files_to_cleanup = <<0>>
  /\ Len(sink) = 1
  /\ removed = {}
  /\ queue[1] \in tree

----------------------------------------------------------------------------
(* C26: every aligned sentinel starts a frame, no word of a header is      *)
(* decoded as a record, and the records up to the next aligned sentinel    *)
(* carry the timestamp of header words 1 and 2; header word 3 changes      *)
(* nothing.                                                                *)

\* the header of the frame that holds word index k
C26_HeaderOf(k) ==
  CHOOSE h \in AlignedSentinels(points) :
    /\ h < k
    /\ \A l \in AlignedSentinels(points) : l < k => l <= h

\* the frame list is the ascending list of the aligned sentinels, and the
\* record loop never stands inside a header it has passed
C26_Frames ==
  (pc \in {"frame", "record"}) =>
    /\ { slices[k] : k \in 1..Len(slices) } = AlignedSentinels(points)
    /\ \A k \in 1..(Len(slices) - 1) : slices[k] < slices[k + 1]
    /\ index < Len(slices)
    /\ (pc = "record") =>
         /\ i % 4 = 0
         /\ i >= slices[index + 1] + 4
         /\ \A k \in AlignedSentinels(points) : k <= slices[index + 1] \/ k >= i

\* the record loop changes state only at a group that is no header, and what
\* it emits carries words 1 and 2 of the header before it
C26_RecordStep ==
  (pc = "record" /\ pc' = "record" /\ i' # i) =>
    /\ i \notin AlignedSentinels(points)
    /\ i' = i + 4
    /\ (data' # data) =>
         /\ Emits
         /\ NewRecord.t = <<At(points, C26_HeaderOf(i) + 1),
                            At(points, C26_HeaderOf(i) + 2)>>

\* the frames are entered in order, each at its header, and a call that
\* returns without an error has entered them all
C26_FrameStep ==
  /\ (pc = "frame" /\ pc' = "record") =>
       /\ i' = slices[index + 1] + 4
       /\ now' = <<At(points, slices[index + 1] + 1),
                   At(points, slices[index + 1] + 2)>>
  /\ (pc = "record" /\ pc' = "frame") =>
       /\ index' = index + 1
       /\ At(points, i) = Sentinel
  /\ (pc = "record" /\ pc' = "returned" /\ errors' = errors) =>
       /\ index + 1 = Len(slices)
       /\ i >= Len(points)

\* the file whose headers differ in word 3 only gives the list that the
\* first file gave
C26_Word3 ==
  (pc = "returned" /\ fileNo = 1 /\ 1 \notin missing) =>
    data = (IF sink = <<>> THEN <<>> ELSE sink[1])

\* C26: aligned sentinels are the frame starts, headers are never decoded, emitted records carry header words 1 and 2, header word 3 has no influence
C26_FrameScan ==
  /\ [][C26_RecordStep /\ C26_FrameStep]_vars
  /\ [](C26_Frames /\ C26_Word3)

\* two frames with one record each were parsed, and the same file with
\* other third header words has given the same two records
C26_Witness ==
  /\ pc = "returned"
  /\ fileNo = 1
  /\ 1 \notin missing
  /\ file = <<TRUE, Flatten(<< Header(0, 1000000, 0), PosA,
                               Header(1, 61000, 7), PosA >>)>>
  /\ sink = << data >>
  /\ Len(data) = 2
  /\ data[1].t = <<0, 1000000>>
  /\ data[2].t = <<1, 61000>>

----------------------------------------------------------------------------
(* C29: the coordinate test comes before the down-sampling gate: a record  *)
(* with coordinates out of range leaves last_seen alone and so cannot hold *)
(* back a later record of the same aircraft.                               *)

\* the record loop stands on a record it can decode
C29_Decodes ==
  /\ pc = "record"
  /\ i + 3 < Len(points)
  /\ At(points, i) # Sentinel

\* the coordinates of that record fail the test
C29_OutOfRange ==
  \/ At(points, i + 1) <= -LatLimit
  \/ At(points, i + 1) >= LatLimit
  \/ At(points, i + 2) <= -LonLimit
  \/ At(points, i + 2) >= LonLimit

\* a record out of range changes neither last_seen nor data
C29_RejectStep ==
  (C29_Decodes /\ C29_OutOfRange) =>
    /\ last_seen' = last_seen
    /\ data' = data
    /\ pc' = "record"

\* a record in range of an aircraft that was not emitted in this file is
\* emitted, whatever was rejected before it
C29_FirstStep ==
  (/\ C29_Decodes
   /\ ~C29_OutOfRange
   /\ \A k \in 1..Len(data) : data[k].hex # HexOf(At(points, i))) =>
    /\ Emits
    /\ NewRecord.t = now
    /\ NewRecord.lat = At(points, i + 1)

\* C29: an out-of-range Position never updates last_seen and never suppresses a later in-range Position of the same hex
C29_RangeBeforeGate == [][C29_RejectStep /\ C29_FirstStep]_vars

\* a position on the latitude limit at t, then a position of the same
\* aircraft in range one second later, which has been emitted
C29_Witness ==
  /\ pc = "record"
  /\ points = Flatten(<< Header(0, 1000000, 0),
                         Position(HexA, LatLimit, 8000000, 2500, 4),
                         Header(0, 1001000, 0),
                         PosA >>)
  /\ i = 16
  /\ Len(data) = 1
  /\ data[1].t = <<0, 1001000>>
  /\ data[1].lat = 47000000

----------------------------------------------------------------------------
(* C30: the words before the first aligned sentinel of a file are never    *)
(* decoded, so the file without these leading groups gives the same list.  *)

\* the first aligned sentinel of the file being parsed
C30_First ==
  CHOOSE k \in AlignedSentinels(points) :
    \A l \in AlignedSentinels(points) : k <= l

\* every step of the record loop stands behind the first aligned sentinel,
\* and the tables are empty until the first frame is entered
C30_Behind ==
  /\ (pc = "record") => i >= C30_First + 4
  /\ (pc = "frame" /\ index = 0) =>
       (data = <<>> /\ last_seen = EmptyMap /\ acinfo = EmptyMap)

\* the file without its leading groups returns what the whole file returned
C30_SameOutput ==
  (pc = "returned" /\ fileNo = 1 /\ 1 \notin missing) =>
    /\ data = (IF sink = <<>> THEN <<>> ELSE sink[1])
    /\ (1 \in errors) = (0 \in errors)

\* C30: words before the first aligned sentinel are never decoded and removing them leaves the output unchanged
C30_LeadIgnored == [](C30_Behind /\ C30_SameOutput)

\* a position stood before the only header; the file that begins at the
\* header has given the same single record
C30_Witness ==
  /\ pc = "returned"
  /\ fileNo = 1
  /\ 1 \notin missing
  /\ file = <<TRUE, Flatten(<< PosA, Header(0, 1000000, 0), PosB >>)>>
  /\ sink = << data >>
  /\ Len(data) = 1
  /\ data[1].t = <<0, 1000000>>

----------------------------------------------------------------------------
(* C25: the protected views run only behind "Bearer <token>" with a token  *)
(* that verify_firebase_token accepted; no or a malformed header gives     *)
(* 401, a rejected token 403, both before validation and query.            *)

\* the positions of the header text that hold no blank
C25_Inked == { k \in 1..Len(auth_header[2]) : auth_header[2][k] # " " }

\* the header reads blanks, Bearer, blanks, one word, blanks
C25_BearerForm ==
  /\ auth_header[1]
  /\ C25_Inked # {}
  /\ LET first == CHOOSE k \in C25_Inked : \A l \in C25_Inked : k <= l
         last  == CHOOSE k \in C25_Inked : \A l \in C25_Inked : l <= k
     IN  /\ auth_header[2][first] = "Bearer"
         /\ first + 1 \notin C25_Inked
         /\ \E from \in (first + 2)..last :
              C25_Inked = {first} \cup from..last

\* the last atom of the header is the one token of an address at bellingcat.com
C25_GoodToken ==
  /\ C25_BearerForm
  /\ LET last == CHOOSE k \in C25_Inked : \A l \in C25_Inked : l <= k
     IN  /\ auth_header[2][last] = "tA"
         /\ last - 1 \notin C25_Inked

\* validation and view stand behind a verified token of the domain
C25_Guarded ==
  (api_pc \in {"validate", "view"} \/ validated \/ queried) =>
    /\ C25_GoodToken
    /\ firebase_initialized
    /\ user.email = <<"alice", "@bellingcat.com">>
    /\ status \notin {401, 403}

\* 401 answers a request without Bearer form, 403 one with it
C25_Rejected ==
  /\ (status = 401) => (~C25_BearerForm /\ ~validated /\ ~queried)
  /\ (status = 403) => (C25_BearerForm /\ ~validated /\ ~queried)

\* the decorator answers at once: 401 without Bearer form, 403 for a token
\* that is not accepted, and the next decorator otherwise
C25_AuthStep ==
  (api_pc = "request") =>
    /\ ~C25_BearerForm => (status' = 401 /\ api_pc' = "responded")
    /\ (C25_BearerForm /\ ~C25_GoodToken) => (status' = 403 /\ api_pc' = "responded")
    /\ (C25_BearerForm /\ C25_GoodToken) =>
         \/ (status' = 403 /\ api_pc' = "responded" /\ ~firebase_initialized')
         \/ (status' = 0 /\ api_pc' = "validate" /\ firebase_initialized')

\* C25: protected views run only for a Bearer header with a verified bellingcat.com token; otherwise 401 or 403 without validation or query
C25_Protected == [][C25_AuthStep]_vars /\ [](C25_Guarded /\ C25_Rejected)

\* a verified token whose address only contains the domain was answered
\* with 403 before validation, by a process with Firebase initialized
C25_Witness ==
  /\ auth_header = <<TRUE, <<"Bearer", " ", "tE">>>>
  /\ firebase_initialized
  /\ status = 403
  /\ api_pc = "responded"
  /\ ~validated
  /\ ~queried

====
